---------------------------- MODULE Spec2Model ----------------------------
(***************************************************************************)
(* A state-machine model of latticenoise (src/src/latticenoise.c): lattice *)
(* construction, the bounds-checked accessors, the 1D/2D noise functions   *)
(* and the fractal sums.                                                   *)
(*                                                                         *)
(* Numbers.  A C float is modelled as an exact rational <<n, d>> in lowest *)
(* terms with d > 0; +infinity is <<1, 0>>, -infinity <<-1, 0>> and NaN    *)
(* <<0, 0>>.  Every input the model draws is a dyadic rational with a few  *)
(* significant bits, for which binary32 arithmetic is exact, so no         *)
(* rounding is lost.  Unsigned 32- and 64-bit integers that may exceed the *)
(* range of the model checker's integers are kept as little-endian         *)
(* sequences of 8-bit limbs and wrap at their width.                       *)
(***************************************************************************)
EXTENDS Integers, Sequences, FiniteSets, TLC

(***************************************************************************)
(* Bounds of the model.                                                    *)
(***************************************************************************)
\* Largest dim_length for which a lattice is actually allocated and filled.
MaxLen == 3
\* Custom random sources carry a seed in 0..MaxSeed.
MaxSeed == 1
\* Largest octave count n drawn for ln_fsum_options.
MaxN == 4

\* Floats the model's heap can hold: the largest lattice that is filled.
HeapCells == MaxLen * MaxLen * MaxLen * MaxLen

(***************************************************************************)
(* float arithmetic (IEEE-754 special values included).                    *)
(***************************************************************************)
Abs(n) == IF n < 0 THEN -n ELSE n
Sgn(n) == IF n < 0 THEN -1 ELSE IF n > 0 THEN 1 ELSE 0

RECURSIVE GCD(_, _)
GCD(a, b) == IF b = 0 THEN a ELSE GCD(b, a % b)

\* The float n/d (d # 0) in lowest terms with a positive denominator.
Norm(n, d) ==
  LET g == GCD(Abs(n), Abs(d))
      s == Sgn(d)
  IN  <<(s * n) \div g, (s * d) \div g>>

Rat(n, d) == Norm(n, d)
Zero == <<0, 1>>
One == <<1, 1>>
INFINITY == <<1, 0>>
NegInf == <<-1, 0>>
NaN == <<0, 0>>
FromInt(n) == <<n, 1>>

IsNaN(a) == a = NaN
IsInf(a) == a[2] = 0 /\ a[1] # 0
IsFinite(a) == a[2] > 0

\* The operations on float values.  (Plus, Mult, Over, Less and Same take
\* values; FAdd, FMul, FDiv, FLt and FEq below evaluate each operand once and
\* hand its value on.)
Plus(a, b) ==
  IF IsNaN(a) \/ IsNaN(b) THEN NaN
  ELSE IF IsInf(a) THEN (IF IsInf(b) /\ b # a THEN NaN ELSE a)
  ELSE IF IsInf(b) THEN b
  ELSE LET l == (a[2] * b[2]) \div GCD(a[2], b[2])
       IN  Norm(a[1] * (l \div a[2]) + b[1] * (l \div b[2]), l)

Mult(a, b) ==
  IF IsNaN(a) \/ IsNaN(b) THEN NaN
  ELSE IF IsInf(a) \/ IsInf(b)
       THEN (IF a[1] = 0 \/ b[1] = 0 THEN NaN ELSE <<Sgn(a[1]) * Sgn(b[1]), 0>>)
  ELSE Norm(a[1] * b[1], a[2] * b[2])

Over(a, b) ==
  IF IsNaN(a) \/ IsNaN(b) THEN NaN
  ELSE IF IsInf(a) THEN (IF IsInf(b) THEN NaN
                         ELSE <<a[1] * (IF b[1] < 0 THEN -1 ELSE 1), 0>>)
  ELSE IF IsInf(b) THEN Zero
  ELSE IF b[1] = 0 THEN (IF a[1] = 0 THEN NaN ELSE <<Sgn(a[1]), 0>>)
  ELSE Norm(a[1] * b[2], a[2] * b[1])

\* C's == and < on floats: every comparison with NaN is false.
Same(a, b) == ~IsNaN(a) /\ ~IsNaN(b) /\ a = b
Less(a, b) == ~IsNaN(a) /\ ~IsNaN(b) /\ a[1] * b[2] < b[1] * a[2]

FAdd(x, y) == CHOOSE r \in {Plus(a, b) : a \in {x}, b \in {y}} : TRUE
FMul(x, y) == CHOOSE r \in {Mult(a, b) : a \in {x}, b \in {y}} : TRUE
FDiv(x, y) == CHOOSE r \in {Over(a, b) : a \in {x}, b \in {y}} : TRUE
FNeg(x) == CHOOSE r \in {<<-a[1], a[2]>> : a \in {x}} : TRUE
FSub(x, y) == FAdd(x, FNeg(y))
FEq(x, y) == \E a \in {x}, b \in {y} : Same(a, b)
FLt(x, y) == \E a \in {x}, b \in {y} : Less(a, b)
FGt(x, y) == FLt(y, x)
FLe(x, y) == \E a \in {x}, b \in {y} : Less(a, b) \/ Same(a, b)

\* A faulty fabs, for comparison: the sign is kept.
FAbs_keeps_sign(x) == CHOOSE r \in {a : a \in {x}} : TRUE

\* fabs
FAbs(x) == CHOOSE r \in {<<Abs(a[1]), a[2]>> : a \in {x}} : TRUE

\* floor of a finite non-negative float, as an integer
Floor(a) == a[1] \div a[2]

\* fmodf(x, y) for finite x >= 0 and an integral y > 0: x - y * trunc(x / y)
fmodf(x, y) == CHOOSE r \in {FSub(a, FromInt(y * (Floor(a) \div y))) : a \in {x}} : TRUE

\* modff(x, &ip) for finite x >= 0: <<fractional part, integral part>>
modff(x) ==
  CHOOSE r \in {<<FSub(a, FromInt(Floor(a))), FromInt(Floor(a))>> : a \in {x}} : TRUE

\* powf(r, n) for an unsigned n converted to float: repeated multiplication
\* gives the exact power, which powf returns when it is representable.
RECURSIVE powf(_, _)
powf(r, n) == IF n = 0 THEN One ELSE FMul(r, powf(r, n - 1))

(***************************************************************************)
(* Unsigned integers wider than TLC's 32 bits, as 8-bit limbs.             *)
(***************************************************************************)
Base == 2 ^ 8

\* ds * m + carry, unbounded (the result has at least Len(ds) limbs).
RECURSIVE MulLimbs(_, _, _)
MulLimbs(ds, m, carry) ==
  IF ds = <<>>
  THEN (IF carry = 0 THEN <<>>
        ELSE <<carry % Base>> \o MulLimbs(<<>>, m, carry \div Base))
  ELSE LET p == Head(ds) * m + carry
       IN  <<p % Base>> \o MulLimbs(Tail(ds), m, p \div Base)

\* unsigned long long: 8 limbs, products wrap modulo 2^64
U64One == <<1, 0, 0, 0, 0, 0, 0, 0>>
U64Mul(a, m) == SubSeq(MulLimbs(a, m, 0), 1, 8)

\* size > UINT_MAX, for a 64-bit size
GtUintMax(size) == \E k \in 5..8 : size[k] # 0

\* (unsigned int) size: the low 32 bits
ToUint(size) == SubSeq(size, 1, 4)

\* unsigned int: 4 limbs, sums and differences wrap modulo 2^32
U32(n) == <<n % Base, (n \div Base) % Base,
            (n \div (Base * Base)) % Base, (n \div (Base * Base * Base)) % Base>>

\* a + b + carry over equally long limb sequences, the final carry dropped
RECURSIVE AddLimbs(_, _, _)
AddLimbs(a, b, carry) ==
  IF a = <<>> THEN <<>>
  ELSE LET t == Head(a) + Head(b) + carry
       IN  <<t % Base>> \o AddLimbs(Tail(a), Tail(b), t \div Base)

U32Add(a, b) == AddLimbs(a, b, 0)
\* a - b is a + (~b + 1) modulo 2^32
U32Sub(a, b) == AddLimbs(a, [k \in 1..4 |-> Base - 1 - b[k]], 1)

\* a % m for a small positive integer m, as an integer (Horner from the top limb)
RECURSIVE LimbsMod(_, _, _)
LimbsMod(a, k, m) ==
  IF k = 0 THEN 0 ELSE (LimbsMod(a, k - 1, m) * Base + a[Len(a) + 1 - k]) % m
U32Mod(a, m) == LimbsMod(a, 4, m)

\* a < b on equally long limb sequences (compared from the top limb down)
RECURSIVE LimbsLt(_, _, _)
LimbsLt(a, b, k) ==
  IF k = 0 THEN FALSE
  ELSE IF a[k] # b[k] THEN a[k] < b[k]
  ELSE LimbsLt(a, b, k - 1)
U32Lt(a, b) == LimbsLt(a, b, 4)
U32Gt(a, b) == LimbsLt(b, a, 4)
U32Ge(a, b) == ~LimbsLt(a, b, 4)

\* An unsigned int known to be below 2^16, as an integer.
UintSmall(u) == u[3] = 0 /\ u[4] = 0
UintNat(u) == u[1] + Base * u[2]

(***************************************************************************)
(* Random sources (ln_rng_func_def).  A source is its seed and its opaque  *)
(* state, here the number of samples drawn so far.  A custom source may    *)
(* return anything, also values outside [0, 1]; the default source returns *)
(* rand() / RAND_MAX, which lies in [0, 1].                                *)
(***************************************************************************)
CustomStream ==
  << <<1, 8>>, <<7, 8>>, <<-1, 2>>, <<1, 4>>, <<3, 2>>,
     <<3, 4>>, <<0, 1>>, <<2, 1>>, <<1, 1>>, <<1, 2>> >>
RandStream ==
  << <<3, 8>>, <<1, 1>>, <<5, 8>>, <<0, 1>>, <<1, 8>>, <<7, 8>>, <<1, 2>> >>

\* Values time(NULL) may return.
Clock == {1}

NullRng == [kind |-> "NULL", seed |-> 0, state |-> 0]
CustomRngs == {[kind |-> "custom", seed |-> s, state |-> 0] : s \in 0..MaxSeed}

\* default_rng(): the stdlib generator seeded from the clock
default_rng(t) == [kind |-> "default", seed |-> t * 241, state |-> 0]

\* rand() / RAND_MAX, as a stream determined by srand's seed
default_rng_func(rng) == RandStream[((rng.seed + rng.state) % Len(RandStream)) + 1]

\* rng_func->func(rng_func->state): the sample returned by one call
RngFunc(rng) ==
  IF rng.kind = "default" THEN default_rng_func(rng)
  ELSE CustomStream[((3 * rng.seed + rng.state) % Len(CustomStream)) + 1]

(***************************************************************************)
(* ln_lattice_new                                                          *)
(***************************************************************************)
\* A faulty clamp, for comparison: the lower bound is forgotten.
clamp01_no_lower_bound(x) ==
  CHOOSE r \in {IF FGt(v, One) THEN One ELSE v : v \in {x}} : TRUE

\* A faulty clamp, for comparison: the upper bound is forgotten.
clamp01_no_upper_bound(x) ==
  CHOOSE r \in {IF FLt(v, Zero) THEN Zero ELSE v : v \in {x}} : TRUE

clamp01(x) ==
  CHOOSE r \in {IF FLt(v, Zero) THEN Zero
               ELSE IF FGt(v, One) THEN One
               ELSE v : v \in {x}} : TRUE

NullLattice ==
  [ptr |-> "NULL", dimensions |-> 0, dim_length |-> 0, size |-> 0,
   seed |-> 0, values |-> <<>>]

\* A faulty size loop, for comparison: i <= dimensions, one pass too many.
RECURSIVE SizeLoop_one_pass_more(_, _, _, _)
SizeLoop_one_pass_more(i, dimensions, dim_length, size) ==
  IF i <= dimensions
  THEN SizeLoop_one_pass_more(i + 1, dimensions, dim_length,
                              U64Mul(size, dim_length))
  ELSE size

\* for (i = 0; i < dimensions; i++) size *= (unsigned long long) dim_length;
RECURSIVE SizeLoop(_, _, _, _)
SizeLoop(i, dimensions, dim_length, size) ==
  IF i < dimensions
  THEN SizeLoop(i + 1, dimensions, dim_length, U64Mul(size, dim_length))
  ELSE size

\* the source after k calls
RngSteps(rng, k) == [rng EXCEPT !.state = @ + k]

\* for (i = 0; i < ulsize; ++i) values[i] = clamp01(func(state));
\* Pass i draws from the source as i earlier calls left it and stores into
\* cell i.  Yields <<values, source after the loop>>.
FillLoop(ulsize, rng) ==
  << [i \in 1..ulsize |-> clamp01(RngFunc(RngSteps(rng, i - 1)))],
     RngSteps(rng, ulsize) >>

\* malloc(ulsize * sizeof(float)) can succeed only within the model's heap
FitsHeap(ulsize) == UintSmall(ulsize) /\ UintNat(ulsize) <= HeapCells

\* The whole of ln_lattice_new: the lattice returned, the source as the call
\* leaves it, and the exit taken.  malloc1 and malloc2 say whether the two
\* allocations succeed, t is the clock read by default_rng().
ln_lattice_new(dimensions, dim_length, rng_func, malloc1, malloc2, t) ==
  IF dimensions < 1 \/ dim_length < 1
  THEN [lattice |-> NullLattice, rng |-> rng_func, exit |-> "args"]
  ELSE CHOOSE res \in {
    IF GtUintMax(size)
    THEN [lattice |-> NullLattice, rng |-> rng_func, exit |-> "overflow"]
    ELSE IF ~malloc1
    THEN [lattice |-> NullLattice, rng |-> rng_func, exit |-> "nomem"]
    ELSE IF ~(malloc2 /\ FitsHeap(ToUint(size)))
    THEN [lattice |-> NullLattice, rng |-> rng_func, exit |-> "die_clean"]
    ELSE CHOOSE built \in {
           [lattice |-> [ptr |-> "live", dimensions |-> dimensions,
                         dim_length |-> dim_length,
                         size |-> UintNat(ToUint(size)),
                         seed |-> src.seed, values |-> filled[1]],
            rng |-> filled[2], exit |-> "ok"]
           : filled \in {FillLoop(UintNat(ToUint(size)), src)} } : TRUE
    : size \in {SizeLoop(0, dimensions, dim_length, U64One)},
      src \in {IF rng_func.kind = "NULL" THEN default_rng(t) ELSE rng_func} } : TRUE

(***************************************************************************)
(* ln_lattice_value1 .. ln_lattice_value4.  Each yields the float returned *)
(* and the indices of lattice->values it read.  A read at or beyond size   *)
(* is outside the allocation: what it finds, junk, is not determined by    *)
(* the program.                                                            *)
(***************************************************************************)
Sentinel == [ret |-> INFINITY, reads |-> <<>>]

\* lattice->values[index]
Load(lattice, index, junk) ==
  [ret |-> IF index < lattice.size THEN lattice.values[index + 1] ELSE junk,
   reads |-> <<index>>]

ln_lattice_value1(lattice, x, junk) ==
  IF lattice.ptr = "NULL"
     \/ lattice.dimensions # 1
     \/ U32Gt(U32(x), U32Sub(U32(lattice.size), U32(1)))
  THEN Sentinel
  ELSE Load(lattice, x, junk)

ln_lattice_value2(lattice, x, y, junk) ==
  IF lattice.ptr = "NULL"
     \/ lattice.dimensions # 2
     \/ x >= lattice.dim_length
     \/ y >= lattice.dim_length
  THEN Sentinel
  ELSE Load(lattice, (y * lattice.dim_length) + x, junk)

ln_lattice_value3(lattice, x, y, z, junk) ==
  IF lattice.ptr = "NULL"
     \/ lattice.dimensions # 2
     \/ x >= lattice.dim_length
     \/ y >= lattice.dim_length
     \/ z >= lattice.dim_length
  THEN Sentinel
  ELSE Load(lattice,
              (z * lattice.dim_length * lattice.dim_length)
            + (y * lattice.dim_length)
            + x, junk)

ln_lattice_value4(lattice, x, y, z, w, junk) ==
  IF lattice.ptr = "NULL"
     \/ lattice.dimensions # 2
     \/ x >= lattice.dim_length
     \/ y >= lattice.dim_length
     \/ z >= lattice.dim_length
     \/ w >= lattice.dim_length
  THEN Sentinel
  ELSE Load(lattice,
              (w * lattice.dim_length * lattice.dim_length * lattice.dim_length)
            + (z * lattice.dim_length * lattice.dim_length)
            + (y * lattice.dim_length)
            + x, junk)

(***************************************************************************)
(* Interpolation and the noise functions.                                  *)
(***************************************************************************)
Two == <<2, 1>>
Three == <<3, 1>>

\* "v \in {e}" names the value of e, as a local variable of the C function
\* does: q is the arguments, fd is <<fd0, fd1>>, k is <<a, b, x2, x3>>.
catmull_rom(p0, p1, p2, p3, x) ==
  CHOOSE res \in UNION { UNION { {
      \* a * x3 + b * x2 + c * x + d, with c = fd0 and d = f0 = p1
      FAdd(FAdd(FAdd(FMul(k[1], k[4]), FMul(k[2], k[3])), FMul(fd[1], q[5])), q[2])
      : k \in { << \* a = (2 * f0) - (2 * f1) + fd0 + fd1
                  FAdd(FAdd(FSub(FMul(Two, q[2]), FMul(Two, q[3])), fd[1]), fd[2]),
                  \* b = (-3 * f0) + (3 * f1) - (2 * fd0) - fd1
                  FSub(FSub(FAdd(FMul(FNeg(Three), q[2]), FMul(Three, q[3])),
                            FMul(Two, fd[1])), fd[2]),
                  \* x2 = x * x, x3 = x2 * x
                  FMul(q[5], q[5]),
                  FMul(FMul(q[5], q[5]), q[5]) >> } }
      \* fd0 = (p2 - p0) / 2, fd1 = (p3 - p1) / 2
      : fd \in { << FDiv(FSub(q[3], q[1]), Two), FDiv(FSub(q[4], q[2]), Two) >> } }
      : q \in { <<p0, p1, p2, p3, x>> } } : TRUE

\* #define WRAP(offset) ((offset) % lattice->dim_length), offset an unsigned int
WRAP(lattice, offset) == U32Mod(offset, lattice.dim_length)

\* Faulty neighbours, for comparison: the window starts at uix, not uix - 1.
Neighbours_from_uix(lattice, uix) ==
  << WRAP(lattice, uix),
     WRAP(lattice, U32Add(uix, U32(1))),
     WRAP(lattice, U32Add(uix, U32(2))),
     WRAP(lattice, U32Add(uix, U32(3))) >>

\* The four neighbours' indices: WRAP(uix - 1), WRAP(uix), WRAP(uix + 1),
\* WRAP(uix + 2), for an unsigned int uix.
Neighbours(lattice, uix) ==
  << WRAP(lattice, U32Sub(uix, U32(1))),
     WRAP(lattice, uix),
     WRAP(lattice, U32Add(uix, U32(1))),
     WRAP(lattice, U32Add(uix, U32(2))) >>

\* In what follows "v \in {e}" names the value of e, as a local variable of
\* the C function does.  mf is modff's <<r, fix>> and x, idx the wrapped indices, p
\* the four samples.  The accessors' in-range reads never reach junk; NaN
\* stands in for it.
ln_lattice_noise1d(lattice, x) ==
  CHOOSE res \in UNION { UNION { {
      [ret |-> catmull_rom(p[1].ret, p[2].ret, p[3].ret, p[4].ret, mf[1]),
       reads |-> p[1].reads \o p[2].reads \o p[3].reads \o p[4].reads,
       idx |-> idx,
       base |-> Floor(mf[2]),
       r |-> mf[1],
       x |-> mf[3]]
      : p \in {[k \in 1..4 |-> ln_lattice_value1(lattice, idx[k], NaN)]} }
      : idx \in {Neighbours(lattice, U32(Floor(mf[2])))} }
      : mf \in {modff(fmodf(FAbs(x), lattice.dim_length)) \o <<x>>} } : TRUE

\* One pass of noise2d's loop over the four rows: the row's interpolated value.
Noise2dRow(lattice, uix, r1, y_base) ==
  CHOOSE res \in UNION { {
      [v |-> catmull_rom(p[1].ret, p[2].ret, p[3].ret, p[4].ret, r1),
       reads |-> p[1].reads \o p[2].reads \o p[3].reads \o p[4].reads,
       cols |-> idx]
      : p \in {[k \in 1..4 |-> ln_lattice_value2(lattice, idx[k], y_base, NaN)]} }
      : idx \in {Neighbours(lattice, uix)} } : TRUE

\* for (i = 0; i < 4; ++i) { v[curr++] = ...; y_base = WRAP(y_base + 1); }
\* acc holds v[], y_base and what has been read so far.
RECURSIVE Noise2dLoop(_, _, _, _, _)
Noise2dLoop(lattice, uix, r1, i, acc) ==
  IF i < 4
  THEN CHOOSE out \in
         { Noise2dLoop(lattice, uix, r1, i + 1, nxt)
           : nxt \in { [v |-> Append(acc.v, row.v),
                        y_base |-> WRAP(lattice, U32Add(U32(acc.y_base), U32(1))),
                        reads |-> acc.reads \o row.reads,
                        rows |-> Append(acc.rows, acc.y_base),
                        cols |-> Append(acc.cols, row.cols)]
                       : row \in {Noise2dRow(lattice, uix, r1, acc.y_base)} } } : TRUE
  ELSE acc

ln_lattice_noise2d(lattice, x, y) ==
  CHOOSE res \in UNION { UNION { {
      [ret |-> clamp01(raw),
       raw |-> raw,
       reads |-> l.reads,
       rows |-> l.rows,
       cols |-> l.cols,
       base |-> <<Floor(m[1][2]), Floor(m[2][2])>>,
       r |-> <<m[1][1], m[2][1]>>,
       xy |-> m[3]]
      : raw \in {catmull_rom(l.v[1], l.v[2], l.v[3], l.v[4], m[2][1])} }
      : l \in {Noise2dLoop(lattice, U32(Floor(m[1][2])), m[1][1], 0,
                           [v |-> <<>>,
                            y_base |-> WRAP(lattice,
                                            U32Sub(U32(Floor(m[2][2])), U32(1))),
                            reads |-> <<>>, rows |-> <<>>, cols |-> <<>>])} }
      : m \in {<<modff(fmodf(FAbs(x), lattice.dim_length)),
                 modff(fmodf(FAbs(y), lattice.dim_length)),
                 <<x, y>> >>} } : TRUE

(***************************************************************************)
(* Fractal sums.                                                           *)
(***************************************************************************)
ln_default_fsum_options ==
  [n |-> 4, amplitude_ratio |-> <<1, 2>>, frequency_ratio |-> <<2, 1>>,
   offset |-> <<0, 1>>]

\* A faulty (call), for comparison: in two dimensions only x is scaled by f.
FsumCall_y_unscaled(lattice, dims, coords, f) ==
  IF dims = 1
  THEN CHOOSE res \in
         { [ret |-> c.ret, reads |-> c.reads, at |-> <<c.x>>]
           : c \in {ln_lattice_noise1d(lattice, FMul(f, coords[1]))} } : TRUE
  ELSE CHOOSE res \in
         { [ret |-> c.ret, reads |-> c.reads, at |-> c.xy]
           : c \in {ln_lattice_noise2d(lattice, FMul(f, coords[1]),
                                       coords[2])} } : TRUE

\* The macro's (call): ln_lattice_noise1d(lattice, f * x), or
\* ln_lattice_noise2d(lattice, f * x, f * y); at is the point evaluated.
FsumCall(lattice, dims, coords, f) ==
  IF dims = 1
  THEN CHOOSE res \in
         { [ret |-> c.ret, reads |-> c.reads, at |-> <<c.x>>]
           : c \in {ln_lattice_noise1d(lattice, FMul(f, coords[1]))} } : TRUE
  ELSE CHOOSE res \in
         { [ret |-> c.ret, reads |-> c.reads, at |-> c.xy]
           : c \in {ln_lattice_noise2d(lattice, FMul(f, coords[1]),
                                       FMul(f, coords[2]))} } : TRUE

\* A faulty entry check, for comparison: only opt->n is tested, so the loop
\* runs on a lattice of the wrong dimensionality.
FSUM_IMPLEMENTATION_n_only(lattice, dims, coords, opt) ==
  IF opt.n < 1
  THEN [ret |-> INFINITY, reads |-> <<>>, evals |-> <<>>, samples |-> <<>>]
  ELSE CHOOSE res \in
         { [ret |-> FAdd(opt.offset, c.ret), reads |-> c.reads,
            evals |-> <<c.at>>, samples |-> <<c.ret>>]
           : c \in {FsumCall(lattice, dims, coords, One)} } : TRUE

\* for (i = 0; i < opt->n; ++i) { result += a * (call); a *= ...; f *= ...; }
\* acc holds result, a and f, and, for the record, the lattice indices read,
\* the points at which the noise function was evaluated and what it returned.
RECURSIVE FsumLoop(_, _, _, _, _, _)
FsumLoop(lattice, dims, coords, opt, i, acc) ==
  IF i < opt.n
  THEN CHOOSE out \in
         { FsumLoop(lattice, dims, coords, opt, i + 1, nxt)
           : nxt \in { [result |-> FAdd(acc.result, FMul(acc.a, c.ret)),
                        a |-> FMul(acc.a, opt.amplitude_ratio),
                        f |-> FMul(acc.f, opt.frequency_ratio),
                        reads |-> acc.reads \o c.reads,
                        evals |-> Append(acc.evals, c.at),
                        samples |-> Append(acc.samples, c.ret)]
                       : c \in {FsumCall(lattice, dims, coords, acc.f)} } } : TRUE
  ELSE acc

FSUM_IMPLEMENTATION(lattice, dims, coords, opt) ==
  IF opt.n < 1 \/ lattice.dimensions # dims
  THEN [ret |-> INFINITY, reads |-> <<>>, evals |-> <<>>, samples |-> <<>>]
  ELSE CHOOSE res \in
         { [ret |-> l.result, reads |-> l.reads, evals |-> l.evals,
            samples |-> l.samples]
           : l \in {FsumLoop(lattice, dims, coords, opt, 0,
                             [result |-> opt.offset, a |-> One, f |-> One,
                              reads |-> <<>>, evals |-> <<>>,
                              samples |-> <<>>])} } : TRUE

ln_lattice_fsum1d(lattice, x, opt) == FSUM_IMPLEMENTATION(lattice, 1, <<x>>, opt)

ln_lattice_fsum2d(lattice, x, y, opt) == FSUM_IMPLEMENTATION(lattice, 2, <<x, y>>, opt)

\* A faulty bound, for comparison: the series is summed one term short.
ln_fsum_max_value_one_term_less(opt) ==
  IF opt.n < 1 THEN INFINITY
  ELSE LET r == opt.amplitude_ratio
       IN  IF ~FEq(r, One)
           THEN FDiv(FSub(One, powf(r, opt.n - 1)), FSub(One, r))
           ELSE FromInt(opt.n)

\* v = opt->offset; v += 1.0f; are dead stores: both branches overwrite v.
ln_fsum_max_value(opt) ==
  IF opt.n < 1 THEN INFINITY
  ELSE LET r == opt.amplitude_ratio
       IN  IF ~FEq(r, One)
           THEN FDiv(FSub(One, powf(r, opt.n)), FSub(One, r))
           ELSE FromInt(opt.n)

(***************************************************************************)
(* The program: one lattice handle, the random source handed to the last   *)
(* construction, and the call in progress.  Every library call is one      *)
(* step; Return hands control back to the caller.                          *)
(***************************************************************************)
VARIABLES lattice, rng, call

vars == <<lattice, rng, call>>

Idle ==
  [op |-> "idle", args |-> <<>>, opt |-> ln_default_fsum_options,
   ret |-> Zero, reads |-> <<>>, evals |-> <<>>, samples |-> <<>>,
   info |-> <<>>, exit |-> ""]

\* Arguments handed to ln_lattice_new: small ones, whose lattice is built, and
\* large ones, whose size does not fit the model's heap or an unsigned int.
BigArgs ==
  { <<1, 65536>>, <<2, 65535>>, <<2, 65536>>, <<3, 65536>>, <<4, 65536>>,
    <<8, 256>>, <<16, 16>>, <<31, 2>>, <<32, 2>>, <<33, 2>>,
    <<3, 2097152>> }
NewArgs == ((0..4) \X (0..MaxLen)) \cup BigArgs

\* What a read beyond the allocation may find.
Junk == {<<5, 16>>, INFINITY, NaN}

\* Coordinates handed to the accessors: up to one beyond the lattice's side.
Coords == 0..((IF lattice.dim_length < MaxLen THEN lattice.dim_length ELSE MaxLen) + 1)

\* Points handed to the noise functions and the fractal sums: quarters in one
\* dimension, halves in two, so that every intermediate float is exact.
NoiseX == {Rat(k, 4) : k \in (-8)..(4 * MaxLen + 8)}
NoiseXY == {Rat(k, 2) : k \in (-2)..(2 * MaxLen)}
FsumX == {<<0, 1>>, <<3, 4>>, <<-5, 2>>}
FsumXY == {<<(<<3, 2>>), (<<1, 2>>)>>, <<(<<5, 2>>), (<<1, 1>>)>>,
           <<(<<0, 1>>), (<<-7, 2>>)>>}

Options ==
  [n : 0..MaxN,
   amplitude_ratio : {<<1, 2>>, <<1, 1>>, <<3, 2>>},
   frequency_ratio : {<<2, 1>>, <<3, 1>>},
   offset : {<<0, 1>>, <<1, 1>>}]

Init ==
  /\ lattice = NullLattice
  /\ rng = NullRng
  /\ call = Idle

New ==
  /\ call.op = "idle"
  /\ lattice.ptr # "live"
  /\ \E a \in NewArgs, src \in {NullRng} \cup CustomRngs,
        malloc1 \in BOOLEAN, malloc2 \in BOOLEAN, t \in Clock :
       \E res \in {ln_lattice_new(a[1], a[2], src, malloc1, malloc2, t)} :
           /\ lattice' = res.lattice
           /\ rng' = res.rng
           /\ call' = [Idle EXCEPT !.op = "new", !.args = a,
                                   !.exit = res.exit,
                                   !.info = [rng_func |-> src,
                                             malloc1 |-> malloc1,
                                             malloc2 |-> malloc2, t |-> t]]

Free ==
  /\ call.op = "idle"
  /\ lattice.ptr = "live"
  /\ lattice' = [NullLattice EXCEPT !.ptr = "freed"]
  /\ call' = [Idle EXCEPT !.op = "free"]
  /\ UNCHANGED rng

\* A faulty accessor, for comparison: it writes to the lattice it reads.
Value1_writes_back ==
  /\ call.op = "idle"
  /\ lattice.ptr # "freed"
  /\ \E x \in Coords, junk \in Junk :
       \E res \in {ln_lattice_value1(lattice, x, junk)} :
           /\ call' = [Idle EXCEPT !.op = "value1", !.args = <<x>>,
                                   !.ret = res.ret, !.reads = res.reads]
           /\ lattice' = [lattice EXCEPT !.seed = Len(res.reads)]
  /\ UNCHANGED rng

Value1 ==
  /\ call.op = "idle"
  /\ lattice.ptr # "freed"
  /\ \E x \in Coords, junk \in Junk :
       \E res \in {ln_lattice_value1(lattice, x, junk)} :
           call' = [Idle EXCEPT !.op = "value1", !.args = <<x>>,
                                !.ret = res.ret, !.reads = res.reads]
  /\ UNCHANGED <<lattice, rng>>

Value2 ==
  /\ call.op = "idle"
  /\ lattice.ptr # "freed"
  /\ \E x \in Coords, y \in Coords, junk \in Junk :
       \E res \in {ln_lattice_value2(lattice, x, y, junk)} :
           call' = [Idle EXCEPT !.op = "value2", !.args = <<x, y>>,
                                !.ret = res.ret, !.reads = res.reads]
  /\ UNCHANGED <<lattice, rng>>

Value3 ==
  /\ call.op = "idle"
  /\ lattice.ptr # "freed"
  /\ \E x \in Coords, y \in Coords, z \in Coords, junk \in Junk :
       \E res \in {ln_lattice_value3(lattice, x, y, z, junk)} :
           call' = [Idle EXCEPT !.op = "value3", !.args = <<x, y, z>>,
                                !.ret = res.ret, !.reads = res.reads]
  /\ UNCHANGED <<lattice, rng>>

Value4 ==
  /\ call.op = "idle"
  /\ lattice.ptr # "freed"
  /\ \E x \in Coords, y \in Coords, z \in Coords, w \in Coords, junk \in Junk :
       \E res \in {ln_lattice_value4(lattice, x, y, z, w, junk)} :
           call' = [Idle EXCEPT !.op = "value4", !.args = <<x, y, z, w>>,
                                !.ret = res.ret, !.reads = res.reads]
  /\ UNCHANGED <<lattice, rng>>

Noise1d ==
  /\ call.op = "idle"
  /\ lattice.ptr = "live"
  /\ \E x \in NoiseX :
       \E res \in {ln_lattice_noise1d(lattice, x)} :
           call' = [Idle EXCEPT !.op = "noise1d", !.args = <<x>>,
                                !.ret = res.ret, !.reads = res.reads,
                                !.info = res]
  /\ UNCHANGED <<lattice, rng>>

Noise2d ==
  /\ call.op = "idle"
  /\ lattice.ptr = "live"
  /\ \E x \in NoiseXY, y \in NoiseXY :
       \E res \in {ln_lattice_noise2d(lattice, x, y)} :
           call' = [Idle EXCEPT !.op = "noise2d", !.args = <<x, y>>,
                                !.ret = res.ret, !.reads = res.reads,
                                !.info = res]
  /\ UNCHANGED <<lattice, rng>>

Fsum1d ==
  /\ call.op = "idle"
  /\ lattice.ptr = "live"
  /\ \E x \in FsumX, opt \in Options :
       \E res \in {ln_lattice_fsum1d(lattice, x, opt)} :
           call' = [Idle EXCEPT !.op = "fsum1d", !.args = <<x>>, !.opt = opt,
                                !.ret = res.ret, !.reads = res.reads,
                                !.evals = res.evals, !.samples = res.samples,
                                !.info = [passed |-> opt]]
  /\ UNCHANGED <<lattice, rng>>

Fsum2d ==
  /\ call.op = "idle"
  /\ lattice.ptr = "live"
  /\ \E p \in FsumXY, opt \in Options :
       \E res \in {ln_lattice_fsum2d(lattice, p[1], p[2], opt)} :
           call' = [Idle EXCEPT !.op = "fsum2d", !.args = p, !.opt = opt,
                                !.ret = res.ret, !.reads = res.reads,
                                !.evals = res.evals, !.samples = res.samples,
                                !.info = [passed |-> opt]]
  /\ UNCHANGED <<lattice, rng>>

FsumMaxValue ==
  /\ call.op = "idle"
  /\ \E opt \in Options :
       call' = [Idle EXCEPT !.op = "fsum_max_value", !.opt = opt,
                            !.ret = ln_fsum_max_value(opt),
                            !.info = [passed |-> opt]]
  /\ UNCHANGED <<lattice, rng>>

\* The call returns to its caller.
Return ==
  /\ call.op # "idle"
  /\ call' = Idle
  /\ UNCHANGED <<lattice, rng>>

Next ==
  \/ New
  \/ Free
  \/ Value1
  \/ Value2
  \/ Value3
  \/ Value4
  \/ Noise1d
  \/ Noise2d
  \/ Fsum1d
  \/ Fsum2d
  \/ FsumMaxValue
  \/ Return

Spec == Init /\ [][Next]_vars

(***************************************************************************)
(* Properties.  Each is stated over the call just made (call.op names it,  *)
(* call.args its arguments) and the lattice it was made on.                *)
(***************************************************************************)
ValueOps == <<"value1", "value2", "value3", "value4">>

\* every coordinate of the call is below the lattice's side
CoordsInRange ==
  \A i \in 1..Len(call.args) : call.args[i] < lattice.dim_length

\* sum over i of c_i * dim_length^i: axis 0 fastest (Horner from the last axis)
RECURSIVE StoredIndex(_, _)
StoredIndex(cs, L) ==
  IF cs = <<>> THEN 0 ELSE Head(cs) + L * StoredIndex(Tail(cs), L)

\* dim_length ^ dimensions, exactly, as limbs
RECURSIVE ExactPower(_, _)
ExactPower(L, d) ==
  IF d = 0 THEN <<1>> ELSE MulLimbs(ExactPower(L, d - 1), L, 0)

\* limbs > 2^32 - 1
ExceedsUintMax(ds) == \E k \in 5..Len(ds) : ds[k] # 0

\* limbs = n, for an integer n below 2^16
LimbsAre(ds, n) ==
  \A k \in 1..Len(ds) :
    ds[k] = (CASE k = 1 -> n % Base [] k = 2 -> n \div Base [] OTHER -> 0)

\* the lattice holds dim_length ^ dimensions samples
WellFormed ==
  /\ LimbsAre(ExactPower(lattice.dim_length, lattice.dimensions), lattice.size)
  /\ Len(lattice.values) = lattice.size

\* C1: for every arity K in 1..4, when lattice.dimensions = K and every
\* coordinate is below dim_length, ln_lattice_valueK returns the stored sample
\* values[sum of c_i * dim_length^i], not the sentinel.
C1_ValueReturnsStoredSample ==
  \A K \in 1..4 :
    (/\ call.op = ValueOps[K]
     /\ lattice.ptr = "live"
     /\ lattice.dimensions = K
     /\ WellFormed
     /\ CoordsInRange)
      => /\ StoredIndex(call.args, lattice.dim_length) < lattice.size
         /\ call.ret = lattice.values[StoredIndex(call.args, lattice.dim_length) + 1]
         /\ call.ret # INFINITY

\* C2: for every arity K in 1..4, ln_lattice_valueK returns the sentinel,
\* positive infinity, whenever lattice.dimensions # K or some coordinate is at
\* or beyond dim_length.
C2_ValueSentinelOnMismatch ==
  \A K \in 1..4 :
    (/\ call.op = ValueOps[K]
     /\ (lattice.dimensions # K \/ ~CoordsInRange))
      => call.ret = INFINITY

ValidNewArgs == call.op = "new" /\ call.args[1] >= 1 /\ call.args[2] >= 1

\* C3: for all dimensions >= 1 and dim_length >= 1 whose exact power
\* dim_length^dimensions exceeds 2^32 - 1, ln_lattice_new returns NULL and no
\* lattice is created, also when the 64-bit running product wraps.
C3_OversizeReturnsNull ==
  (ValidNewArgs /\ ExceedsUintMax(ExactPower(call.args[2], call.args[1])))
    => lattice.ptr = "NULL" /\ lattice.values = <<>>

\* both allocations succeed: malloc grants them and the request fits the heap
AllocationsSucceed ==
  /\ call.info.malloc1
  /\ call.info.malloc2
  /\ ~ExceedsUintMax(ExactPower(call.args[2], call.args[1]))
  /\ \E n \in 1..HeapCells : LimbsAre(ExactPower(call.args[2], call.args[1]), n)

\* the random source the constructor draws from, before the first draw
SourceUsed ==
  IF call.info.rng_func.kind = "NULL"
  THEN [kind |-> "default", seed |-> call.info.t * 241, state |-> 0]
  ELSE call.info.rng_func

\* C4: for dimensions >= 1 and dim_length >= 1 with dim_length^dimensions at
\* most 2^32 - 1, and both allocations succeeding, ln_lattice_new returns a
\* non-NULL lattice with dimensions and dim_length as given, size =
\* dim_length^dimensions and seed = the seed of the random source used.
C4_NewSetsFields ==
  (ValidNewArgs /\ AllocationsSucceed)
    => /\ lattice.ptr = "live"
       /\ lattice.dimensions = call.args[1]
       /\ lattice.dim_length = call.args[2]
       /\ LimbsAre(ExactPower(call.args[2], call.args[1]), lattice.size)
       /\ lattice.seed = SourceUsed.seed

C4_Witness ==
  /\ ValidNewArgs /\ AllocationsSucceed
  /\ call.args = <<3, MaxLen>>
  /\ call.info.rng_func.kind = "NULL"
  /\ lattice.ptr = "live"
  /\ lattice.size = MaxLen * MaxLen * MaxLen

\* the i-th sample (from 0) the source used yields
SampleNo(i) == RngFunc([SourceUsed EXCEPT !.state = i])

\* v is s brought into [0, 1]
IsClampOf(v, s) ==
  /\ Less(Zero, v) \/ Same(Zero, v)
  /\ Less(v, One) \/ Same(v, One)
  /\ Less(s, Zero) => v = Zero
  /\ Less(One, s) => v = One
  /\ ~Less(s, Zero) /\ ~Less(One, s) => v = s

\* C5: after a successful ln_lattice_new with any random source, the source
\* has been sampled exactly size times and every cell i in 0..size-1 holds
\* the i-th sample clamped into [0, 1]; so every stored sample is in [0, 1].
C5_CellsAreClampedSamples ==
  (call.op = "new" /\ lattice.ptr = "live")
    => /\ rng.kind = SourceUsed.kind
       /\ rng.state = lattice.size
       /\ Len(lattice.values) = lattice.size
       /\ \A i \in 0..(lattice.size - 1) :
            IsClampOf(lattice.values[i + 1], SampleNo(i))

C5_Witness ==
  /\ call.op = "new" /\ lattice.ptr = "live"
  /\ call.info.rng_func.kind = "custom"
  /\ lattice.size >= 4
  /\ rng.state = lattice.size
  /\ \E i \in 0..(lattice.size - 1) : Less(One, SampleNo(i))
  /\ \E i \in 0..(lattice.size - 1) : Less(SampleNo(i), Zero)

\* k wrapped into 0..L-1 by true modulo
TrueMod(k, L) == ((k % L) + L) % L

\* C6: in ln_lattice_noise1d, for every dim_length L >= 1 and every base index
\* i in 0..L-1, the four sample indices used are the true-modulo wraps of
\* i-1, i, i+1, i+2; for i = 0 the first neighbour is index L-1.
C6_NeighboursWrapTrueModulo ==
  (/\ call.op = "noise1d"
   /\ lattice.dimensions = 1
   /\ call.info.base \in 0..(lattice.dim_length - 1))
    => \A k \in 1..4 :
         call.info.idx[k] = TrueMod(call.info.base + k - 2, lattice.dim_length)

FsumOps == <<"fsum1d", "fsum2d">>

\* the fractal sum just called has valid options and a lattice of its own
\* dimensionality K
FsumAccepted(K) ==
  call.op = FsumOps[K] /\ call.opt.n >= 1 /\ lattice.dimensions = K

\* C7: for options with n >= 1 and a lattice of matching dimensionality, the
\* value returned by ln_lattice_fsum1d / ln_lattice_fsum2d never exceeds
\* ln_fsum_max_value of the same options, offset included, given that each
\* noise sample is at most 1.0.
C7_FsumWithinMaxValue ==
  \A K \in 1..2 :
    (/\ FsumAccepted(K)
     /\ \A k \in 1..Len(call.samples) :
          Less(call.samples[k], One) \/ Same(call.samples[k], One))
      => \/ Less(call.ret, ln_fsum_max_value(call.opt))
         \/ Same(call.ret, ln_fsum_max_value(call.opt))

\* r ^ n for a positive rational r in lowest terms
PowerOf(r, n) == <<r[1] ^ n, r[2] ^ n>>

\* C8: for options with n >= 1, ln_fsum_max_value returns (1 - r^n) / (1 - r)
\* when r = amplitude_ratio # 1 and n when r = 1; for n < 1 it returns
\* infinity; for the defaults of ln_default_fsum_options (n = 4, amplitude
\* ratio 1/2, frequency ratio 2, offset 0) the result is 1.875.
C8_MaxValueClosedForm ==
  call.op = "fsum_max_value"
    => LET r == call.opt.amplitude_ratio
           n == call.opt.n
           v == call.ret
       IN  /\ n < 1 => v = INFINITY
           /\ (n >= 1 /\ r # One)
                => /\ IsFinite(v)
                   /\ Mult(v, Plus(One, <<-r[1], r[2]>>))
                        = Plus(One, <<-(r[1] ^ n), r[2] ^ n>>)
           /\ (n >= 1 /\ r = One) => v = <<n, 1>>
           /\ call.opt = ln_default_fsum_options
                => /\ n = 4 /\ r = <<1, 2>>
                   /\ call.opt.frequency_ratio = <<2, 1>>
                   /\ call.opt.offset = <<0, 1>>
                   /\ v = <<15, 8>>

C8_Witness ==
  /\ call.op = "fsum_max_value"
  /\ call.opt = ln_default_fsum_options
  /\ call.ret = <<15, 8>>

\* the noise function of K dimensions at point p
NoiseAt(K, p) ==
  IF K = 1 THEN ln_lattice_noise1d(lattice, p[1]).ret
  ELSE ln_lattice_noise2d(lattice, p[1], p[2]).ret

\* offset + the first k terms amplitude_ratio^i * sample i
RECURSIVE WeightedSum(_)
WeightedSum(k) ==
  IF k = 0 THEN call.opt.offset
  ELSE Plus(WeightedSum(k - 1),
            Mult(PowerOf(call.opt.amplitude_ratio, k - 1), call.samples[k]))

C10_FsumRejectsBeforeSampling ==
  \A K \in 1..2 :
    (call.op = FsumOps[K] /\ (call.opt.n < 1 \/ lattice.dimensions # K))
      => /\ call.ret = INFINITY
         /\ call.evals = <<>>
         /\ call.samples = <<>>
         /\ call.reads = <<>>

C10_Witness ==
  /\ call.op = "fsum1d"
  /\ lattice.dimensions = 2
  /\ call.opt.n >= 1
  /\ call.ret = INFINITY
  /\ call.evals = <<>>

\* the call just made is ln_lattice_noise1d on a 1-dimensional lattice
Noise1dOn1d == call.op = "noise1d" /\ lattice.dimensions = 1

\* C11: for every 1-dimensional lattice and every integer-valued x,
\* ln_lattice_noise1d(lattice, x) equals the raw stored sample
\* ln_lattice_value1(lattice, |x| mod dim_length).
C11_Noise1dExactAtLatticePoints ==
  (Noise1dOn1d /\ call.args[1][2] = 1)
    => /\ call.ret
            = ln_lattice_value1(lattice,
                                Abs(call.args[1][1]) % lattice.dim_length,
                                NaN).ret
       /\ call.ret = lattice.values[(Abs(call.args[1][1]) % lattice.dim_length) + 1]

C11_Witness ==
  /\ Noise1dOn1d
  /\ lattice.dim_length = MaxLen
  /\ call.args[1] = <<MaxLen + 1, 1>>
  /\ call.ret = lattice.values[2]
  /\ call.ret # lattice.values[1]

\* C12: for every 1-dimensional lattice of length L and every x,
\* ln_lattice_noise1d(lattice, x) = ln_lattice_noise1d(lattice, x + L): both
\* queries use the same four sample indices and the same fractional parameter.
C12_Noise1dPeriodic ==
  Noise1dOn1d
    => \E q \in {ln_lattice_noise1d(lattice,
                                    Plus(call.args[1],
                                         <<lattice.dim_length, 1>>))} :
         /\ q.ret = call.ret
         /\ q.idx = call.info.idx
         /\ q.r = call.info.r

\* C13: for every 1-dimensional lattice and every x,
\* ln_lattice_noise1d(lattice, x) = ln_lattice_noise1d(lattice, -x).
C13_Noise1dSymmetric ==
  Noise1dOn1d
    => \E q \in {ln_lattice_noise1d(lattice,
                                    <<-call.args[1][1], call.args[1][2]>>)} :
         /\ q.ret = call.ret
         /\ q.idx = call.info.idx
         /\ q.r = call.info.r

C13_Witness ==
  /\ Noise1dOn1d
  /\ lattice.dim_length = MaxLen
  /\ call.args[1] = <<-5, 4>>
  /\ call.info.base = 1
  /\ call.info.r = <<1, 4>>
  /\ call.ret = ln_lattice_noise1d(lattice, <<5, 4>>).ret
  /\ call.ret # lattice.values[2]

\* C14: when ln_lattice_noise1d is called on a lattice whose dimensions # 1,
\* or ln_lattice_noise2d on one whose dimensions # 2, the accessors' sentinel
\* is propagated: the value returned is infinity, which a caller comparing
\* the result with INFINITY detects.
C14_NoiseSentinelPropagated ==
  (/\ WellFormed
   /\ \/ call.op = "noise1d" /\ lattice.dimensions # 1
      \/ call.op = "noise2d" /\ lattice.dimensions # 2)
    => Same(call.ret, INFINITY)

\* every stored sample lies in [0, 1]
SamplesInUnitInterval ==
  \A i \in 1..Len(lattice.values) :
    /\ Less(Zero, lattice.values[i]) \/ Same(Zero, lattice.values[i])
    /\ Less(lattice.values[i], One) \/ Same(lattice.values[i], One)

\* the call just made is ln_lattice_noise2d on a 2-dimensional lattice
Noise2dOn2d == call.op = "noise2d" /\ lattice.dimensions = 2

\* C15: for every 2-dimensional lattice whose samples lie in [0, 1] and every
\* (x, y), the value returned by ln_lattice_noise2d lies in [0, 1], also when
\* the interpolation overshoots the unit interval.
C15_Noise2dInUnitInterval ==
  (Noise2dOn2d /\ SamplesInUnitInterval)
    => /\ Less(Zero, call.ret) \/ Same(Zero, call.ret)
       /\ Less(call.ret, One) \/ Same(call.ret, One)

C15_Witness ==
  /\ Noise2dOn2d /\ SamplesInUnitInterval
  /\ Less(call.info.raw, Zero)
  /\ call.ret = Zero

QueryOps ==
  {"value1", "value2", "value3", "value4", "noise1d", "noise2d",
   "fsum1d", "fsum2d", "fsum_max_value"}

\* C16: after construction, no call of ln_lattice_value1..4,
\* ln_lattice_noise1d/2d, ln_lattice_fsum1d/2d or ln_fsum_max_value changes
\* a field of the lattice or of the options passed; only ln_lattice_free ends
\* the lattice's life.
C16_QueriesChangeNothing ==
  [][/\ call'.op \in QueryOps => lattice' = lattice
     /\ call'.op \in {"fsum1d", "fsum2d", "fsum_max_value"}
          => call'.opt = call'.info.passed
     /\ (lattice.ptr = "live" /\ lattice' # lattice)
          => call'.op = "free" /\ lattice'.ptr = "freed"]_vars

C16_Witness ==
  /\ call.op = "value1"
  /\ lattice.ptr = "live"
  /\ lattice.dimensions = 1
  /\ lattice.seed = 241
  /\ call.reads = <<MaxLen - 1>>
  /\ call.ret = lattice.values[MaxLen]

\* the true-modulo wraps of i-1, i, i+1, i+2
CentredWindow(i, L) == [k \in 1..4 |-> TrueMod(i + k - 2, L)]

\* C17: in ln_lattice_noise2d, for every dim_length L >= 1 and every base row
\* j in 0..L-1, the four rows interpolated across x are, in order, the
\* true-modulo wraps of j-1, j, j+1, j+2, and within each row the four
\* columns are the true-modulo wraps of i-1, i, i+1, i+2, also for j = 0 and
\* i = 0 and L not a power of two.
C17_Noise2dWindowCentred ==
  Noise2dOn2d
    => /\ call.info.rows = CentredWindow(call.info.base[2], lattice.dim_length)
       /\ \A k \in 1..4 :
            call.info.cols[k]
              = CentredWindow(call.info.base[1], lattice.dim_length)

\* C18: for every lattice produced by ln_lattice_new and every call of
\* ln_lattice_value1..4, whenever the accessor does not return the sentinel
\* the index it reads from values is strictly less than lattice.size.
C18_ReadsWithinAllocation ==
  (call.op \in {ValueOps[K] : K \in 1..4} /\ lattice.ptr = "live")
    => \A k \in 1..Len(call.reads) : call.reads[k] < lattice.size

\* C19: for every 2-dimensional lattice of any dim_length L >= 1 and every
\* pair of integer-valued coordinates (x, y), ln_lattice_noise2d(lattice, x, y)
\* equals the raw stored sample ln_lattice_value2(lattice, |x| mod L,
\* |y| mod L), also when |y| mod L = 0.
C19_Noise2dExactAtLatticePoints ==
  (Noise2dOn2d /\ call.args[1][2] = 1 /\ call.args[2][2] = 1)
    => call.ret
         = ln_lattice_value2(lattice,
                             Abs(call.args[1][1]) % lattice.dim_length,
                             Abs(call.args[2][1]) % lattice.dim_length,
                             NaN).ret

=============================================================================
